---------------------------- MODULE Spec2Model ----------------------------
(***************************************************************************)
(* Checkout / payment settlement core of the django-store storefront       *)
(* (store/core/views.py, store/core/models.py).                            *)
(*                                                                         *)
(* The database tables (Product, Invoice, InvoiceItem, Payment), the       *)
(* per-session cart and the position of every in-flight HTTP request are   *)
(* the state.  Every database operation of a view (a .get(), a .save(), an *)
(* aggregate, a lazy foreign-key fetch) is one atomic step; the views run  *)
(* with no transaction and no lock, so the steps of different requests     *)
(* interleave freely under Spec and run one request at a time under        *)
(* SeqSpec.                                                                *)
(*                                                                         *)
(* Nullable values are option sequences: << >> is None, <<x>> is x.        *)
(* Money: Invoice.total and InvoiceItem.total are held in hundredths,      *)
(* Payment.total in ten-thousandths, so that the percentages of the code   *)
(* stay exact integers.                                                    *)
(***************************************************************************)
EXTENDS Integers, Sequences, FiniteSets, TLC

VARIABLES
    products,   \* Product table: id -> [name, price, discount, count, enabled]
    cart,       \* session store: session -> (product-id string -> quantity)
    invoices,   \* Invoice table: row id (position) -> [number, total, discount, vat]
    items,      \* InvoiceItem table: set of rows
    payments,   \* Payment table: row id (position) -> row
    issued,     \* gateway: for each authority token it has issued, in issue
                \* order, the amount of the authorize request it answered
    req,        \* in-flight requests: slot -> [pc, locals of the view]
    pre,        \* SeqSpec: the tables as they were when the running request began
    netfail     \* SeqSpec: payments whose verify call has failed in transport

vars == <<products, cart, invoices, items, payments, issued, req, pre, netfail>>

(***************************************************************************)
(* Bounds of the model.                                                    *)
(***************************************************************************)
MaxInvoices == 2        \* Spec: checkout POSTs that get as far as saving an Invoice
MaxQty == 1             \* Spec: units of one product a cart is driven to
SeqMaxInvoices == 1     \* SeqSpec: checkout POSTs that save an Invoice
SeqMaxQty == 2          \* SeqSpec: units of one product a cart is driven to
AdminMaxInvoices == 1   \* AdminSpec: checkout POSTs that save an Invoice
AdminMaxQty == 1        \* AdminSpec: units of one product a cart is driven to
SerialMaxInvoices == 3  \* SerialSpec: checkout POSTs that save an Invoice
CrashMaxInvoices == 1   \* CrashSpec: checkout POSTs that save an Invoice
CrashMaxQty == 1        \* CrashSpec: units of one product a cart is driven to
RaceMaxInvoices == 2    \* RaceSpec: checkout POSTs that save an Invoice
CartMaxQty == 2         \* CartSpec: units of one product a cart is driven to
PricingMaxQty == 2      \* PricingSpec: units of one product in a cart
PricingMaxInvoices == 1 \* PricingSpec: checkout POSTs that save an Invoice

Slots == {"r1", "r2"}           \* requests that may be in flight together
Sessions == {"s1"}              \* browser sessions
ProductIds == {1, 2}            \* rows of the Product table
InitialCount == <<2, 1>>        \* Product.count of each row at the start
RefSeq == <<"R1", "R2", "R3", "R4">>    \* the ref_id the gateway returns for each token
AuthSeq == <<"A1", "A2", "A3", "A4">>   \* the gateway's tokens, in issue order
UnknownAuthority == "A0"        \* a token the gateway never issued
int_auth(a) == CHOOSE n \in 1..Len(AuthSeq) : AuthSeq[n] = a

None == << >>
Some(x) == <<x>>

(***************************************************************************)
(* Payment.STATUS_* and the field defaults of the models.                  *)
(***************************************************************************)
STATUS_PENDING == "pending"
STATUS_DONE == "done"
STATUS_ERROR == "error"

InvoiceVatDefault == 9
InvoiceDiscountDefault == 0

(***************************************************************************)
(* str(obj.id) and int(item_id): the cart is keyed by the decimal string   *)
(* of the product id.                                                      *)
(***************************************************************************)
DigitStr == <<"1", "2", "3", "4", "5", "6", "7", "8", "9">>
str(n) == IF n < 0 THEN "-" \o DigitStr[-n] ELSE DigitStr[n]
isdigit(s) == \E n \in 1..Len(DigitStr) : DigitStr[n] = s
int(s) == CHOOSE n \in 1..Len(DigitStr) : DigitStr[n] = s

RECURSIVE SumOver(_, _)
SumOver(S, f) ==
    IF S = {} THEN 0
    ELSE LET x == CHOOSE y \in S : TRUE
         IN  f[x] + SumOver(S \ {x}, f)

SetMax(S) == CHOOSE x \in S : \A y \in S : y <= x

(***************************************************************************)
(* Cart Store                                                              *)
(***************************************************************************)
get_cart(s) == cart[s]

cart_get(c, k, default) == IF k \in DOMAIN c THEN c[k] ELSE default

\* an add that does not look at the product's count and enabled flag
add_to_cart_unchecked(c, id) ==
    [k \in (DOMAIN c) \cup {str(id)} |->
        IF k = str(id) THEN cart_get(c, str(id), 0) + 1 ELSE c[k]]

add_to_cart(c, id) ==
    IF products[id].count > 0 /\ products[id].enabled
    THEN [k \in (DOMAIN c) \cup {str(id)} |->
            IF k = str(id) THEN cart_get(c, str(id), 0) + 1 ELSE c[k]]
    ELSE c

\* a removal that takes one unit off the entry and leaves the key in place
remove_from_cart_decrementing(c, item_id) ==
    IF str(item_id) \in DOMAIN c
    THEN [c EXCEPT ![str(item_id)] = @ - 1]
    ELSE c

remove_from_cart(c, item_id) ==
    IF str(item_id) \in DOMAIN c
    THEN [k \in (DOMAIN c) \ {str(item_id)} |-> c[k]]
    ELSE c

EmptyCart == [k \in {} |-> 0]

(***************************************************************************)
(* Pricing: get_cart_total_price, in hundredths.  price * (1 - d/100) * n  *)
(* is price * (100 - d) * n hundredths; entries whose product is missing   *)
(* are skipped.                                                            *)
(***************************************************************************)
LineTotal(price, discount, count) == price * (100 - discount) * count

get_cart_total_price(c) ==
    LET live == {k \in DOMAIN c : isdigit(k) /\ int(k) \in DOMAIN products}
        line == [k \in live |->
                    LineTotal(products[int(k)].price, products[int(k)].discount, c[k])]
    IN  SumOver(live, line)

(***************************************************************************)
(* prepare_cart_data.  subtotal and discount_total are held in hundredths, *)
(* vat_amount and total in ten-thousandths; an entry whose product is      *)
(* missing (Product.DoesNotExist) is passed over.                          *)
(***************************************************************************)
vat_rate == 9

\* a line total that takes the discount for a fraction: price * count * (1 - discount)
item_total_fraction(product, count) == product.price * count * 100 * (1 - product.discount)

\* a line total that leaves the discount out
item_total_undiscounted(product, count) == product.price * count * 100

\* item_total = product.price * count * (1 - product.discount / 100)
item_total(product, count) == product.price * count * (100 - product.discount)

prepare_cart_data(c) ==
    LET found == {k \in DOMAIN c : int(k) \in DOMAIN products}
        cart_items == [k \in found |->
                         [product |-> int(k),
                          count |-> c[k],
                          price |-> products[int(k)].price,
                          discount |-> products[int(k)].discount,
                          total |-> item_total(products[int(k)], c[k])]]
        subtotal == 100 * SumOver(found, [k \in found |-> products[int(k)].price * c[k]])
        discount_total == subtotal - SumOver(found, [k \in found |-> cart_items[k].total])
        vat_amount == (subtotal - discount_total) * vat_rate
        total == (subtotal - discount_total) * 100 + vat_amount
    IN  [cart_items |-> cart_items, subtotal |-> subtotal,
         discount_total |-> discount_total, vat_amount |-> vat_amount,
         total |-> total]

(***************************************************************************)
(* payment.total = invoice.total * (1 - invoice.discount / 100), plus      *)
(* (invoice.vat / 100) of that: ten-thousandths from hundredths.           *)
(***************************************************************************)
\* a payment total that leaves the VAT out
PaymentTotalWithoutVat(inv) == inv.total * (100 - inv.discount)

PaymentTotal(inv) ==
    LET afterDiscount == inv.total * (100 - inv.discount)
    IN  (afterDiscount * 100 + inv.vat * afterDiscount) \div 100

\* int(payment.total): the amount sent to the gateway
Amount(p) == p.total \div 10000

(***************************************************************************)
(* Requests                                                                *)
(***************************************************************************)
IdleReq ==
    [pc |-> "idle", view |-> "none", session |-> None, status |-> None,
     authority |-> None, cart |-> EmptyCart, invoice |-> None, payment |-> None,
     product |-> None, todo |-> {}, gateway |-> "none", ref |-> None,
     amount |-> None, location |-> None, context |-> None, outcome |-> "none",
     before |-> {}]

Idle(r) == req[r].pc = "idle"
AllIdle == \A r \in Slots : Idle(r)

Snapshot == [products |-> products, cart |-> cart, invoices |-> invoices,
             items |-> items, payments |-> payments]
NoSnapshot == None
Track(track) == IF track THEN Some(Snapshot) ELSE NoSnapshot

\* render(...): under SeqSpec the slot keeps the rendered outcome until Respond
Tracking == pre # NoSnapshot
Finish(q, r, what) ==
    IF Tracking THEN [q[r] EXCEPT !.pc = "done", !.outcome = what] ELSE IdleReq

Init ==
    /\ products = [id \in ProductIds |->
                     [name |-> IF id = 1 THEN "mug" ELSE "pen",
                      price |-> IF id = 1 THEN 100 ELSE 50,
                      discount |-> IF id = 1 THEN 10 ELSE 0,
                      count |-> InitialCount[id],
                      enabled |-> TRUE]]
    /\ cart = [s \in Sessions |-> EmptyCart]
    /\ invoices = << >>
    /\ items = {}
    /\ payments = << >>
    /\ issued = << >>
    /\ req = [r \in Slots |-> IdleReq]
    /\ pre = NoSnapshot
    /\ netfail = {}

(***************************************************************************)
(* AddToCartView.get, RemoveFromCartView.post, EmptyCartView.get           *)
(***************************************************************************)
\* add-to-cart that also takes the unit off the stock
AddToCartViewReserving(s, item_id, cap) ==
    /\ item_id \in DOMAIN products
    /\ cart_get(get_cart(s), str(item_id), 0) < cap
    /\ cart' = [cart EXCEPT ![s] = add_to_cart(get_cart(s), item_id)]
    /\ products' = [products EXCEPT ![item_id].count =
                        IF cart'[s] # cart[s] THEN @ - 1 ELSE @]
    /\ UNCHANGED <<invoices, items, payments, issued, req, pre, netfail>>

AddToCartView(s, item_id, cap) ==
    /\ item_id \in DOMAIN products              \* get_object_or_404
    /\ cart_get(get_cart(s), str(item_id), 0) < cap
    /\ cart' = [cart EXCEPT ![s] = add_to_cart(get_cart(s), item_id)]
    /\ UNCHANGED <<products, invoices, items, payments, issued, req, pre, netfail>>

RemoveFromCartView(s, item_id) ==
    /\ cart' = [cart EXCEPT ![s] = remove_from_cart(get_cart(s), item_id)]
    /\ UNCHANGED <<products, invoices, items, payments, issued, req, pre, netfail>>

EmptyCartView(s) ==
    /\ cart' = [cart EXCEPT ![s] = EmptyCart]
    /\ UNCHANGED <<products, invoices, items, payments, issued, req, pre, netfail>>

(***************************************************************************)
(* The admin site: ProductAdmin lets staff edit a product's name, price    *)
(* and discount, and delete a product that no InvoiceItem refers to        *)
(* (InvoiceItem.product is on_delete=PROTECT).                             *)
(***************************************************************************)
ProductEdits == {[name |-> "cup", price |-> 120, discount |-> 0]}

AdminSaveProduct(id, edit) ==
    /\ id \in DOMAIN products
    /\ products' = [products EXCEPT ![id].name = edit.name,
                                    ![id].price = edit.price,
                                    ![id].discount = edit.discount]
    /\ products' # products
    /\ UNCHANGED <<cart, invoices, items, payments, issued, req, pre, netfail>>

AdminDeleteProduct(id) ==
    /\ id \in DOMAIN products
    /\ \A it \in items : it.product # id
    /\ products' = [p \in (DOMAIN products) \ {id} |-> products[p]]
    /\ UNCHANGED <<cart, invoices, items, payments, issued, req, pre, netfail>>

(***************************************************************************)
(* CheckoutCartView.post                                                   *)
(***************************************************************************)
\* CheckoutCartView.get: the checkout page with the totals of the cart
CheckoutGet(r, s) ==
    /\ Idle(r)
    /\ req' = [req EXCEPT ![r] =
                 [IdleReq EXCEPT !.pc = "done",
                                 !.view = "checkout_get",
                                 !.session = Some(s),
                                 !.cart = get_cart(s),
                                 !.context = Some(prepare_cart_data(get_cart(s))),
                                 !.outcome = "checkout_page"]]
    /\ UNCHANGED <<products, cart, invoices, items, payments, issued, pre, netfail>>

\* the page rendered for request r of session s with the given view and context
Page(s, view, c, context, what) ==
    [IdleReq EXCEPT !.pc = "done", !.view = view, !.session = Some(s),
                    !.cart = c, !.context = Some(context), !.outcome = what]

\* the entries of cart c whose product is on file
Live(c) == [k \in {j \in DOMAIN c : int(j) \in DOMAIN products} |-> c[k]]

\* a cart page that drops the entries of missing products from the session
ShowCartViewPruning(r, s) ==
    /\ Idle(r)
    /\ req' = [req EXCEPT ![r] =
                 Page(s, "cart_show", get_cart(s),
                      [total |-> get_cart_total_price(get_cart(s))], "cart_page")]
    /\ cart' = [cart EXCEPT ![s] = Live(get_cart(s))]
    /\ UNCHANGED <<products, invoices, items, payments, issued, pre, netfail>>

\* ShowCartView.get: the cart page with get_cart_total_price(cart)
ShowCartView(r, s) ==
    /\ Idle(r)
    /\ req' = [req EXCEPT ![r] =
                 Page(s, "cart_show", get_cart(s),
                      [total |-> get_cart_total_price(get_cart(s))], "cart_page")]
    /\ UNCHANGED <<products, cart, invoices, items, payments, issued, pre, netfail>>

\* form.is_valid(), invoice.total = get_cart_total_price(cart), invoice.save()
\* a checkout that writes over the last Invoice on file instead of adding one
CheckoutPostOverwriting(r, s, valid, track) ==
    /\ Idle(r)
    /\ valid
    /\ pre' = Track(track)
    /\ LET row == [number |-> None,
                   total |-> get_cart_total_price(get_cart(s)),
                   discount |-> InvoiceDiscountDefault,
                   vat |-> InvoiceVatDefault]
           id == IF invoices = << >> THEN 1 ELSE Len(invoices)
       IN  /\ invoices' = IF invoices = << >> THEN <<row>>
                          ELSE [invoices EXCEPT ![id] = row]
           /\ req' = [req EXCEPT ![r] =
                        [IdleReq EXCEPT !.pc = "co_items",
                                        !.view = "checkout",
                                        !.session = Some(s),
                                        !.cart = get_cart(s),
                                        !.invoice = Some([id |-> id] @@ row)]]
    /\ UNCHANGED <<products, cart, items, payments, issued, netfail>>

CheckoutPost(r, s, valid, track) ==
    /\ Idle(r)
    /\ pre' = Track(track)
    /\ IF ~valid
       THEN /\ req' = [req EXCEPT ![r] =
                        IF track THEN [IdleReq EXCEPT !.pc = "done",
                                                      !.view = "checkout",
                                                      !.session = Some(s),
                                                      !.outcome = "form_invalid"]
                        ELSE IdleReq]
            /\ UNCHANGED invoices
       ELSE /\ LET row == [number |-> None,
                           total |-> get_cart_total_price(get_cart(s)),
                           discount |-> InvoiceDiscountDefault,
                           vat |-> InvoiceVatDefault]
                   obj == [id |-> Len(invoices) + 1] @@ row
               IN  /\ invoices' = Append(invoices, row)
                   /\ req' = [req EXCEPT ![r] =
                                [IdleReq EXCEPT !.pc = "co_items",
                                                !.view = "checkout",
                                                !.session = Some(s),
                                                !.cart = get_cart(s),
                                                !.invoice = Some(obj)]]
    /\ UNCHANGED <<products, cart, items, payments, issued, netfail>>

\* the loop over cart.items() with items.get(id=...), then bulk_create
CheckoutItems(r) ==
    /\ req[r].pc = "co_items"
    /\ LET c == req[r].cart
           inv == req[r].invoice[1]
       IN  IF \E k \in DOMAIN c : int(k) \notin DOMAIN products
           THEN \* Product.DoesNotExist is not caught: the request ends in a 500
                /\ req' = [req EXCEPT ![r] = Finish(req, r, "server_error")]
                /\ UNCHANGED items
           ELSE /\ items' = items \cup
                      {[invoice |-> inv.id,
                        product |-> int(k),
                        name |-> products[int(k)].name,
                        count |-> c[k],
                        discount |-> products[int(k)].discount,
                        price |-> products[int(k)].price,
                        total |-> LineTotal(products[int(k)].price,
                                            products[int(k)].discount, c[k])]
                       : k \in DOMAIN c}
                /\ req' = [req EXCEPT ![r].pc = "co_authorize"]
    /\ UNCHANGED <<products, cart, invoices, payments, issued, pre, netfail>>

\* a payment attached to the first invoice on file instead of the new one
NewPaymentForFirstInvoice(inv) ==
    [invoice |-> 1, total |-> PaymentTotal(inv), ref |-> None,
     status |-> STATUS_PENDING, authority |-> "",
     error_code |-> None, error_message |-> None]

NewPayment(inv) ==
    [invoice |-> inv.id, total |-> PaymentTotal(inv), ref |-> None,
     status |-> STATUS_PENDING, authority |-> "",
     error_code |-> None, error_message |-> None]

\* the body of a rejection: {"errors": {"code": -9, "message": "bad merchant"}}
GatewayErrors == [code |-> -9, message |-> "bad merchant"]

ZARINPAL_START_PAY_URL == "https://sandbox.zarinpal.com/pg/StartPay/"
payment_url(authority) == ZARINPAL_START_PAY_URL \o authority

\* the success branch that saves the payment without the token
OnAuthorizeSuccessNoToken(payment, authority) == payment

\* payment.authority = authority; payment.save()
OnAuthorizeSuccess(payment, authority) ==
    [payment EXCEPT !.authority = authority]

\* the else branch: status, error_code = str(code), error_message; payment.save()
OnAuthorizeErrors(payment, errors) ==
    [payment EXCEPT !.status = STATUS_ERROR,
                    !.error_code = Some(str(errors.code)),
                    !.error_message = Some(errors.message)]

\* an except branch that records no message
OnAuthorizeExceptionNoMessage(payment) ==
    [payment EXCEPT !.status = STATUS_ERROR]

\* an except branch that saves the payment as it is
OnAuthorizeExceptionLeavesPending(payment) == payment

\* except Exception: status, error_message; payment.save()
OnAuthorizeException(payment) ==
    [payment EXCEPT !.status = STATUS_ERROR,
                    !.error_message = Some("error in connection to zarinpal")]

\* an amount rounded up to the next whole unit
AuthorizeAmountRoundedUp(payment) == (payment.total + 9999) \div 10000

\* request_data["amount"] = int(payment.total)
AuthorizeAmount(payment) == Amount(payment)

\* requests.post(ZARINPAL_REQUEST_URL, ...) and the payment.save() of its branch
CheckoutAuthorize(r, response) ==
    /\ req[r].pc = "co_authorize"
    /\ LET payment == NewPayment(req[r].invoice[1])
           q == [req EXCEPT ![r].gateway = response,
                            ![r].amount = Some(AuthorizeAmount(payment))]
       IN  CASE response = "code100" ->
                    /\ Len(issued) < Len(AuthSeq)
                    /\ issued' = Append(issued, AuthorizeAmount(payment))
                    /\ LET authority == AuthSeq[Len(issued) + 1]
                       IN  /\ payments' = Append(payments,
                                            OnAuthorizeSuccess(payment, authority))
                           /\ req' = [req EXCEPT ![r] =
                                 Finish([q EXCEPT ![r].location =
                                            Some(payment_url(authority))],
                                        r, "redirect")]
             [] response = "errors" ->
                    /\ payments' = Append(payments,
                                          OnAuthorizeErrors(payment, GatewayErrors))
                    /\ req' = [req EXCEPT ![r] = Finish(q, r, "checkout_error")]
                    /\ UNCHANGED issued
             [] response \in {"errors_data_list", "exception"} ->
                    \* a body whose data is a list ({"data": [], "errors": {...}})
                    \* raises AttributeError at .get('code'), inside the try
                    /\ payments' = Append(payments, OnAuthorizeException(payment))
                    /\ req' = [req EXCEPT ![r] = Finish(q, r, "checkout_error")]
                    /\ UNCHANGED issued
    /\ UNCHANGED <<products, cart, invoices, items, pre, netfail>>

(***************************************************************************)
(* VerifyView.get                                                          *)
(***************************************************************************)
\* the lookup without its status filter
WithAuthority(a) ==
    {i \in 1..Len(payments) : payments[i].authority = a}

\* the lookup with a filter that lets payments in error through
UnsettledWithAuthority(a) ==
    {i \in 1..Len(payments) :
        payments[i].authority = a /\ payments[i].status # STATUS_DONE}

\* Payment.objects.get(authority=authority, status=STATUS_PENDING)
PendingWithAuthority(a) ==
    {i \in 1..Len(payments) :
        payments[i].authority = a /\ payments[i].status = STATUS_PENDING}

PaymentRow(obj) == [f \in (DOMAIN obj) \ {"id"} |-> obj[f]]
InvoiceRow(obj) == [f \in (DOMAIN obj) \ {"id"} |-> obj[f]]
ProductRow(obj) == [f \in (DOMAIN obj) \ {"id", "item"} |-> obj[f]]

\* an amount worked out again from the invoice's items at today's prices
VerifyAmountRepriced(payment) ==
    LET rows == {it \in items : it.invoice = payment.invoice}
        line == [it \in rows |->
                    LineTotal(products[it.product].price,
                              products[it.product].discount, it.count)]
        inv == invoices[payment.invoice]
    IN  Amount([total |-> PaymentTotal([inv EXCEPT !.total = SumOver(rows, line)])])

\* verify_data["amount"] = int(payment.total)
VerifyAmount(payment) == Amount(payment)

\* the invoices whose settlement has run to its invoice.save()
SettledInvoices == {j \in 1..Len(invoices) : invoices[j].number # None}

\* the Status and Authority parameters, the `not authority` test, the lookup.
\* The request remembers in `before` which invoices were settled when it began.
VerifyView(r, s, status, authority, track) ==
    /\ Idle(r)
    /\ pre' = Track(track)
    /\ LET begun == [IdleReq EXCEPT !.view = "verify", !.session = Some(s),
                                    !.status = status, !.authority = authority]
           end(what) == IF track THEN [begun EXCEPT !.pc = "done", !.outcome = what]
                        ELSE IdleReq
       IN  IF authority = None \/ authority = Some("")
           THEN req' = [req EXCEPT ![r] = end("cancelled")]
           ELSE LET found == PendingWithAuthority(authority[1])
                IN  IF found = {}
                    THEN req' = [req EXCEPT ![r] = end("no_payment")]
                    ELSE IF Cardinality(found) > 1
                    THEN \* MultipleObjectsReturned is not caught
                         req' = [req EXCEPT ![r] = end("server_error")]
                    ELSE LET i == CHOOSE j \in found : TRUE
                             obj == [id |-> i] @@ payments[i]
                         IN  req' = [req EXCEPT ![r] =
                                 [begun EXCEPT !.payment = Some(obj),
                                               !.before = SettledInvoices,
                                               !.amount = IF status # Some("OK")
                                                          THEN None
                                                          ELSE Some(VerifyAmount(obj)),
                                               !.pc = IF status # Some("OK")
                                                      THEN "v_cancel"
                                                      ELSE "v_gateway"]]
    /\ UNCHANGED <<products, cart, invoices, items, payments, issued, netfail>>

\* the cancellation branch without its payment.save()
VerifyCancelUnsaved(r) ==
    /\ req[r].pc = "v_cancel"
    /\ req' = [req EXCEPT ![r] = Finish(req, r, "canceled")]
    /\ UNCHANGED <<products, cart, invoices, items, payments, issued, pre, netfail>>

\* status != 'OK': payment.status = STATUS_ERROR; payment.save()
VerifyCancel(r) ==
    /\ req[r].pc = "v_cancel"
    /\ LET obj == [req[r].payment[1] EXCEPT !.status = STATUS_ERROR]
       IN  /\ payments' = [payments EXCEPT ![obj.id] = PaymentRow(obj)]
           /\ req' = [req EXCEPT ![r] = Finish(req, r, "canceled")]
    /\ UNCHANGED <<products, cart, invoices, items, issued, pre, netfail>>

\* a transport failure handled as the authorize call handles it: the payment is marked error
OnRequestExceptionMarksError(r) ==
    LET obj == [req[r].payment[1] EXCEPT !.status = STATUS_ERROR]
    IN  payments' = [payments EXCEPT ![obj.id] = PaymentRow(obj)]

\* except requests.exceptions.RequestException: only the failure page is rendered
OnRequestException(r) ==
    UNCHANGED payments

\* requests.post(ZARINPAL_VERIFY_URL, ...) and verify_response.json()
VerifyGateway(r, result) ==
    /\ req[r].pc = "v_gateway"
    /\ CASE result = "exception" ->
                /\ req' = [req EXCEPT ![r] =
                             Finish([req EXCEPT ![r].gateway = result], r, "network_error")]
                /\ netfail' = IF Tracking THEN netfail \cup {req[r].payment[1].id}
                               ELSE netfail
                /\ OnRequestException(r)
         [] result = "code100" ->
                /\ req' = [req EXCEPT ![r].pc = "v_save_done",
                                      ![r].gateway = result,
                                      ![r].ref = Some(RefSeq[int_auth(req[r].authority[1])])]
                /\ UNCHANGED <<netfail, payments>>
         [] result = "other" ->
                /\ req' = [req EXCEPT ![r].pc = "v_save_error",
                                      ![r].gateway = result]
                /\ UNCHANGED <<netfail, payments>>
         [] result = "no_data" ->
                \* verify_result.get('data') is None or a list: its .get raises
                \* AttributeError, which nothing catches
                /\ req' = [req EXCEPT ![r] =
                             Finish([req EXCEPT ![r].gateway = result], r, "server_error")]
                /\ UNCHANGED <<netfail, payments>>
    /\ UNCHANGED <<products, cart, invoices, items, issued, pre>>

\* payment.ref = ref_id; payment.status = STATUS_DONE; payment.save()
VerifySaveDone(r) ==
    /\ req[r].pc = "v_save_done"
    /\ LET obj == [req[r].payment[1] EXCEPT !.ref = req[r].ref,
                                            !.status = STATUS_DONE]
       IN  /\ payments' = [payments EXCEPT ![obj.id] = PaymentRow(obj)]
           /\ req' = [req EXCEPT ![r].payment = Some(obj),
                                 ![r].pc = "v_invoice"]
    /\ UNCHANGED <<products, cart, invoices, items, issued, pre, netfail>>

\* an else branch that writes the status column only
\* (payment.save(update_fields=['status']))
VerifySaveErrorStatusOnly(r) ==
    /\ req[r].pc = "v_save_error"
    /\ payments' = [payments EXCEPT ![req[r].payment[1].id].status = STATUS_ERROR]
    /\ req' = [req EXCEPT ![r] = Finish(req, r, "not_verified")]
    /\ UNCHANGED <<products, cart, invoices, items, issued, pre, netfail>>

\* the else branch: payment.status = STATUS_ERROR; payment.save()
VerifySaveError(r) ==
    /\ req[r].pc = "v_save_error"
    /\ LET obj == [req[r].payment[1] EXCEPT !.status = STATUS_ERROR]
       IN  /\ payments' = [payments EXCEPT ![obj.id] = PaymentRow(obj)]
           /\ req' = [req EXCEPT ![r] = Finish(req, r, "not_verified")]
    /\ UNCHANGED <<products, cart, invoices, items, issued, pre, netfail>>

\* InvoiceItem.objects.filter(invoice=invoice)
ItemsOf(invoice_id) == {it \in items : it.invoice = invoice_id}
AfterNumber(todo) == IF todo = {} THEN "v_save_invoice" ELSE "v_product"

\* invoice = payment.invoice: the row is fetched when the attribute is first read
VerifyFetchInvoice(r) ==
    /\ req[r].pc = "v_invoice"
    /\ LET id == req[r].payment[1].invoice
           obj == [id |-> id] @@ invoices[id]
       IN  req' = [req EXCEPT ![r].invoice = Some(obj),
                              ![r].todo = IF obj.number = None THEN {} ELSE ItemsOf(id),
                              ![r].pc = IF obj.number = None THEN "v_number"
                                        ELSE AfterNumber(ItemsOf(id))]
    /\ UNCHANGED <<products, cart, invoices, items, payments, issued, pre, netfail>>

\* the count of the Invoice rows in place of the highest number
InvoicesOnFile == Some(Len(invoices))

\* Invoice.objects.aggregate(Max('number'))['number__max']
MaxNumber ==
    LET numbers == {invoices[i].number[1] :
                       i \in {j \in 1..Len(invoices) : invoices[j].number # None}}
    IN  IF numbers = {} THEN None ELSE Some(SetMax(numbers))

\* (max_number or 0) + 1
NextNumber(max_number) ==
    (IF max_number = None \/ max_number = Some(0) THEN 0 ELSE max_number[1]) + 1

VerifyNumber(r) ==
    /\ req[r].pc = "v_number"
    /\ LET obj == [req[r].invoice[1] EXCEPT !.number = Some(NextNumber(MaxNumber))]
       IN  req' = [req EXCEPT ![r].invoice = Some(obj),
                              ![r].todo = ItemsOf(obj.id),
                              ![r].pc = AfterNumber(ItemsOf(obj.id))]
    /\ UNCHANGED <<products, cart, invoices, items, payments, issued, pre, netfail>>

\* product = item.product: the Product row is fetched for this item
VerifyReadProduct(r) ==
    /\ req[r].pc = "v_product"
    /\ \E it \in req[r].todo :
          \* one row per loop turn; the rows of an invoice are taken in product order
          /\ \A other \in req[r].todo : it.product <= other.product
          /\ req' = [req EXCEPT ![r].product =
                                   Some([id |-> it.product, item |-> it]
                                        @@ products[it.product]),
                                ![r].pc = "v_product_save"]
    /\ UNCHANGED <<products, cart, invoices, items, payments, issued, pre, netfail>>

\* one unit taken off the stock whatever the item's count
DecrementByOne(count, item) == count - 1

\* a decrement that stops at zero
DecrementClamped(count, item) ==
    IF count - item.count < 0 THEN 0 ELSE count - item.count

\* product.count -= item.count
Decrement(count, item) == count - item.count

\* product.count -= item.count; product.save()
VerifySaveProduct(r) ==
    /\ req[r].pc = "v_product_save"
    /\ LET cur == req[r].product[1]
           obj == [cur EXCEPT !.count = Decrement(cur.count, cur.item)]
           rest == req[r].todo \ {cur.item}
       IN  /\ products' = [products EXCEPT ![obj.id] = ProductRow(obj)]
           /\ req' = [req EXCEPT ![r].product = None,
                                 ![r].todo = rest,
                                 ![r].pc = AfterNumber(rest)]
    /\ UNCHANGED <<cart, invoices, items, payments, issued, pre, netfail>>

\* the statements of VerifyView.get that go to the database
DatabaseSteps ==
    {"v_cancel", "v_save_done", "v_save_error", "v_invoice", "v_number",
     "v_product", "v_product_save", "v_save_invoice"}

\* a database statement raises (django.db.Error: connection lost, database
\* locked): nothing in the view catches it and no transaction is open, so the
\* request ends in a 500 with the rows saved so far left as they are
VerifyAbort(r) ==
    /\ req[r].view = "verify"
    /\ req[r].pc \in DatabaseSteps
    /\ req' = [req EXCEPT ![r] = Finish(req, r, "server_error")]
    /\ UNCHANGED <<products, cart, invoices, items, payments, issued, pre, netfail>>

\* invoice.save(); request.session['cart'] = {}; the success page
VerifySaveInvoice(r) ==
    /\ req[r].pc = "v_save_invoice"
    /\ LET obj == req[r].invoice[1]
       IN  invoices' = [invoices EXCEPT ![obj.id] = InvoiceRow(obj)]
    /\ cart' = [cart EXCEPT ![req[r].session[1]] = EmptyCart]
    /\ req' = [req EXCEPT ![r] = Finish(req, r, "success")]
    /\ UNCHANGED <<products, items, payments, issued, pre, netfail>>

\* the response has been rendered: the slot is free again
Respond(r) ==
    /\ req[r].pc = "done"
    /\ req' = [req EXCEPT ![r] = IdleReq]
    /\ pre' = NoSnapshot
    \* a payment that has left pending needs no retry any more
    /\ netfail' = {i \in netfail : payments[i].status = STATUS_PENDING}
    /\ UNCHANGED <<products, cart, invoices, items, payments, issued>>

StatusParams == {Some("OK"), Some("NOK")}
SeqStatusParams == StatusParams \cup {None}
AuthorityParams(limit) ==
    {None, Some(""), Some(UnknownAuthority)} \cup {Some(AuthSeq[n]) : n \in 1..limit}
\* the authorize call: data.code = 100 with a token, an errors object with no
\* data key, an errors object beside "data": [], a transport failure
AuthorizeResponses == {"code100", "errors", "errors_data_list", "exception"}
\* the verify call: data.code = 100, a data object with another code, a body
\* with no data object (errors only), a transport failure
VerifyResults == {"code100", "other", "no_data", "exception"}

\* the steps a request takes once it has begun
Step(r) ==
    \/ CheckoutItems(r)
    \/ \E response \in AuthorizeResponses : CheckoutAuthorize(r, response)
    \/ VerifyCancel(r)
    \/ \E result \in VerifyResults : VerifyGateway(r, result)
    \/ VerifySaveDone(r)
    \/ VerifySaveError(r)
    \/ VerifyFetchInvoice(r)
    \/ VerifyNumber(r)
    \/ VerifyReadProduct(r)
    \/ VerifySaveProduct(r)
    \/ VerifySaveInvoice(r)

CartRequest(cap) ==
    \/ \E s \in Sessions, id \in ProductIds : AddToCartView(s, id, cap)
    \/ \E s \in Sessions, id \in ProductIds : RemoveFromCartView(s, id)
    \/ \E s \in Sessions : EmptyCartView(s)

\* the model saves no more than limit invoices
Room(valid, limit) == valid => Len(invoices) < limit

\* requests arrive at any time and their steps interleave
Next ==
    \/ CartRequest(MaxQty)
    \/ \E r \in Slots, s \in Sessions, valid \in BOOLEAN :
            Room(valid, MaxInvoices) /\ CheckoutPost(r, s, valid, FALSE)
    \/ \E r \in Slots, s \in Sessions, st \in StatusParams, a \in AuthorityParams(MaxInvoices) :
            VerifyView(r, s, st, a, FALSE)
    \/ \E r \in Slots : Step(r)

Spec == Init /\ [][Next]_vars

\* one request at a time: a request begins only when no other is in flight
SeqSlot == CHOOSE r \in Slots : TRUE
SeqNext ==
    \/ AllIdle /\ CartRequest(SeqMaxQty)
    \/ \E s \in Sessions, valid \in BOOLEAN :
            AllIdle /\ Room(valid, SeqMaxInvoices) /\ CheckoutPost(SeqSlot, s, valid, TRUE)
    \/ \E s \in Sessions, st \in SeqStatusParams, a \in AuthorityParams(SeqMaxInvoices) :
            AllIdle /\ VerifyView(SeqSlot, s, st, a, TRUE)
    \/ Step(SeqSlot)
    \/ Respond(SeqSlot)

SeqSpec == Init /\ [][SeqNext]_vars

\* one customer request at a time, with staff at work in the admin site
\* at any moment, also between two steps of a request
AdminNext ==
    \/ \E id \in ProductIds, edit \in ProductEdits : AdminSaveProduct(id, edit)
    \/ \E id \in ProductIds : AdminDeleteProduct(id)
    \/ AllIdle /\ CartRequest(AdminMaxQty)
    \/ \E s \in Sessions, valid \in BOOLEAN :
            AllIdle /\ Room(valid, AdminMaxInvoices) /\ CheckoutPost(SeqSlot, s, valid, FALSE)
    \/ \E s \in Sessions, st \in StatusParams, a \in AuthorityParams(AdminMaxInvoices) :
            AllIdle /\ VerifyView(SeqSlot, s, st, a, FALSE)
    \/ Step(SeqSlot)

AdminSpec == Init /\ [][AdminNext]_vars

\* the customers of SerialSpec and RaceSpec shop for the product with one
\* unit left, and put no more of it in a cart than was in stock at the start
RaceProductIds == {id \in ProductIds : InitialCount[id] = 1}

\* one request at a time, untracked, with room for several invoices
SerialNext ==
    \/ \E s \in Sessions, id \in RaceProductIds :
            AllIdle /\ AddToCartView(s, id, InitialCount[id])
    \/ \E s \in Sessions, id \in RaceProductIds :
            AllIdle /\ RemoveFromCartView(s, id)
    \/ \E s \in Sessions : AllIdle /\ EmptyCartView(s)
    \/ \E s \in Sessions, valid \in BOOLEAN :
            AllIdle /\ Room(valid, SerialMaxInvoices) /\ CheckoutPost(SeqSlot, s, valid, FALSE)
    \/ \E s \in Sessions, st \in StatusParams, a \in AuthorityParams(SerialMaxInvoices) :
            AllIdle /\ VerifyView(SeqSlot, s, st, a, FALSE)
    \/ Step(SeqSlot)

SerialSpec == Init /\ [][SerialNext]_vars

\* one request at a time, where a database statement of a verify request may
\* fail
CrashNext ==
    \/ AllIdle /\ CartRequest(CrashMaxQty)
    \/ \E s \in Sessions, valid \in BOOLEAN :
            AllIdle /\ Room(valid, CrashMaxInvoices) /\ CheckoutPost(SeqSlot, s, valid, FALSE)
    \/ \E s \in Sessions, st \in StatusParams, a \in AuthorityParams(CrashMaxInvoices) :
            AllIdle /\ VerifyView(SeqSlot, s, st, a, FALSE)
    \/ Step(SeqSlot)
    \/ VerifyAbort(SeqSlot)

CrashSpec == Init /\ [][CrashNext]_vars

\* cart requests and checkouts one at a time, and the returns from the gateway
\* at any moment: the steps of two verify requests interleave.  The second
\* slot is taken only while the first is busy.
RaceNext ==
    \/ \E s \in Sessions, id \in RaceProductIds :
            AllIdle /\ AddToCartView(s, id, InitialCount[id])
    \/ \E s \in Sessions, id \in RaceProductIds :
            AllIdle /\ RemoveFromCartView(s, id)
    \/ \E s \in Sessions : AllIdle /\ EmptyCartView(s)
    \/ \E s \in Sessions, valid \in BOOLEAN :
            AllIdle /\ Room(valid, RaceMaxInvoices) /\ CheckoutPost(SeqSlot, s, valid, FALSE)
    \/ \E r \in Slots, s \in Sessions, st \in StatusParams, a \in AuthorityParams(RaceMaxInvoices) :
            (r = SeqSlot \/ ~Idle(SeqSlot)) /\ VerifyView(r, s, st, a, FALSE)
    \/ \E r \in Slots : Step(r)

RaceSpec == Init /\ [][RaceNext]_vars

(***************************************************************************)
(* The cart views alone, over a range of product tables: any stock, also   *)
(* none or a negative one, enabled or not.  The session starts with one    *)
(* unit of every product in the cart, put there while it was on sale.      *)
(***************************************************************************)
CartCounts == {-1, 0, 1, 2}

CartInit ==
    /\ products \in [ProductIds ->
                        [name : {"mug"}, price : {100}, discount : {10},
                         count : CartCounts, enabled : BOOLEAN]]
    /\ cart = [s \in Sessions |-> [k \in {str(id) : id \in ProductIds} |-> 1]]
    /\ invoices = << >>
    /\ items = {}
    /\ payments = << >>
    /\ issued = << >>
    /\ req = [r \in Slots |-> IdleReq]
    /\ pre = NoSnapshot
    /\ netfail = {}

CartNext == CartRequest(CartMaxQty)

CartSpec == CartInit /\ [][CartNext]_vars

(***************************************************************************)
(* The pricing of the checkout page, over a range of product tables and    *)
(* carts: products 2 and 5 at any of the prices and discounts below, a     *)
(* cart over the keys "2", "5" and "7" (no product 7 is on file).          *)
(***************************************************************************)
PricingIds == {2, 5}
PricingPrices == {0, 50, 100}
PricingDiscounts == {0, 10, 100}
PricingKeys == {"2", "5", "7"}
PricingCarts ==
    UNION {[keys -> 1..PricingMaxQty] : keys \in SUBSET PricingKeys}

PricingInit ==
    /\ products \in [PricingIds ->
                        [name : {"mug"}, price : PricingPrices,
                         discount : PricingDiscounts, count : {10},
                         enabled : {TRUE}]]
    /\ cart \in [Sessions -> PricingCarts]
    /\ invoices = << >>
    /\ items = {}
    /\ payments = << >>
    /\ issued = << >>
    /\ req = [r \in Slots |-> IdleReq]
    /\ pre = NoSnapshot
    /\ netfail = {}

PricingNext ==
    \/ \E s \in Sessions : AllIdle /\ CheckoutGet(SeqSlot, s)
    \/ \E s \in Sessions : AllIdle /\ ShowCartView(SeqSlot, s)
    \/ \E s \in Sessions, valid \in BOOLEAN :
            AllIdle /\ Room(valid, PricingMaxInvoices) /\ CheckoutPost(SeqSlot, s, valid, TRUE)
    \/ CheckoutItems(SeqSlot)
    \/ \E response \in AuthorizeResponses : CheckoutAuthorize(SeqSlot, response)
    \/ Respond(SeqSlot)

PricingSpec == PricingInit /\ [][PricingNext]_vars

(***************************************************************************)
(* Properties.  Under SeqSpec a finished request stays in its slot with    *)
(* its outcome until Respond, and pre holds the tables as they were when   *)
(* it began.                                                               *)
(***************************************************************************)
Pre == pre[1]

PendingIn(table, a) ==
    {i \in 1..Len(table) : table[i].authority = a /\ table[i].status = STATUS_PENDING}
DoneIn(table, a) ==
    {i \in 1..Len(table) : table[i].authority = a /\ table[i].status = STATUS_DONE}

Verifying(r) == req[r].view = "verify" /\ req[r].pc # "idle"
VerifyDone(r) == req[r].view = "verify" /\ req[r].pc = "done"
Usable(a) == a # None /\ a # Some("")

CountsUnchanged ==
    \A id \in DOMAIN products : products[id].count = Pre.products[id].count

\* units of product id on the invoice
Ordered(invoice_id, id) ==
    LET rows == {it \in items : it.invoice = invoice_id /\ it.product = id}
    IN  SumOver(rows, [it \in rows |-> it.count])

\* request r has applied the full settlement to payment i
Settled(r, i) ==
    /\ req[r].outcome = "success"
    /\ payments[i].status = STATUS_DONE
    /\ req[r].ref # None
    /\ payments[i].ref = req[r].ref
    /\ invoices[payments[i].invoice].number # None
    /\ \A id \in DOMAIN products :
          products[id].count =
              Pre.products[id].count - Ordered(payments[i].invoice, id)
    /\ cart[req[r].session[1]] = EmptyCart

\* C1: once a verify call has settled the payment with authority a to done,
\* every later verify call with authority a, whatever its Status, ends in
\* "no such payment" and leaves the payment's status and ref, its invoice's
\* number and every Product.count as they were before the call.
C1_SequentialIdempotence ==
    \A r \in Slots :
        (/\ Verifying(r)
         /\ Usable(req[r].authority)
         /\ DoneIn(Pre.payments, req[r].authority[1]) # {})
        => /\ req[r].pc = "done"
           /\ req[r].outcome = "no_payment"
           /\ \A i \in DoneIn(Pre.payments, req[r].authority[1]) :
                 /\ payments[i].status = Pre.payments[i].status
                 /\ payments[i].ref = Pre.payments[i].ref
                 /\ invoices[payments[i].invoice].number =
                        Pre.invoices[payments[i].invoice].number
           /\ CountsUnchanged

\* a second verify call with Status=OK for a payment that is already done
C1_Witness ==
    \E r \in Slots :
        /\ VerifyDone(r)
        /\ req[r].status = Some("OK")
        /\ Usable(req[r].authority)
        /\ DoneIn(Pre.payments, req[r].authority[1]) # {}

\* C2: however the steps of concurrent verify requests for one authority
\* interleave, the stock of a product is lowered by an invoice item's count
\* at most once per payment: no Product.count falls below its initial value
\* less the units ordered on the invoices that have a payment.
C2_AtMostOnceSettlement ==
    \A id \in DOMAIN products :
        products[id].count >=
            InitialCount[id] -
                SumOver(1..Len(payments),
                        [i \in 1..Len(payments) |-> Ordered(payments[i].invoice, id)])

\* C3: a stored payment status of done or error is never changed by any step.
C3_StatusMonotone ==
    [][\A i \in 1..Len(payments) :
          payments[i].status # STATUS_PENDING
              => payments'[i].status = payments[i].status]_vars

Numbered == {i \in 1..Len(invoices) : invoices[i].number # None}

\* C4: every non-null Invoice.number is a strictly positive integer and no two
\* invoices share a non-null number.
C4_NumberUnique ==
    \A i \in Numbered :
        /\ invoices[i].number[1] > 0
        /\ \A j \in Numbered : invoices[j].number = invoices[i].number => j = i

NumberedImpliesDone ==
    \A i \in Numbered :
        \E k \in 1..Len(payments) :
            payments[k].invoice = i /\ payments[k].status = STATUS_DONE

\* C5: an invoice with a non-null number has a payment whose status is done,
\* and once an invoice's number is non-null no step changes it.
C5_NumberOnceOnSuccess ==
    [][/\ NumberedImpliesDone'
       /\ \A i \in Numbered : invoices'[i].number = invoices[i].number]_vars

\* C6: a verify request with Status=OK whose authority matches a pending
\* payment and whose gateway call returns code 100 ends with the payment done
\* with the gateway's ref_id, the invoice numbered, every product's stock
\* lowered by exactly the units on the invoice (others untouched) and the
\* session's cart empty.
C6_SuccessfulVerifySettles ==
    \A r \in Slots :
        (/\ VerifyDone(r)
         /\ req[r].status = Some("OK")
         /\ Usable(req[r].authority)
         /\ PendingIn(Pre.payments, req[r].authority[1]) # {}
         /\ req[r].gateway = "code100")
        => \A i \in PendingIn(Pre.payments, req[r].authority[1]) : Settled(r, i)

\* a settlement of an invoice with two items, one of them of two units
C6_Witness ==
    \E r \in Slots :
        /\ VerifyDone(r)
        /\ req[r].outcome = "success"
        /\ \E i \in PendingIn(Pre.payments, req[r].authority[1]) :
              /\ Ordered(payments[i].invoice, 1) = 2
              /\ Ordered(payments[i].invoice, 2) = 1
        /\ Pre.cart[req[r].session[1]] # EmptyCart

\* C7: a step that changes any Product.count is a step of a verify request
\* whose gateway call returned the success code; cart requests, checkout
\* requests and every other verify request leave the stock alone.
C7_StockOnlyBySettlement ==
    [][(\E id \in DOMAIN products : products'[id].count # products[id].count)
          => \E r \in Slots : /\ req[r].view = "verify"
                              /\ req[r].gateway = "code100"]_vars

\* stock has been lowered, and a checkout has gone through with the stock intact
C7_Witness ==
    /\ products[1].count < InitialCount[1]
    /\ products[2].count = InitialCount[2]
    /\ Len(payments) > 0

\* C8: a verify request whose authority matches a pending payment and whose
\* Status is not OK sets the payment's status to error, makes no call to the
\* gateway, and leaves every Product.count, the invoice's null number and the
\* cart as they were.
C8_Cancellation ==
    \A r \in Slots :
        (/\ Verifying(r)
         /\ req[r].status # Some("OK")
         /\ Usable(req[r].authority)
         /\ PendingIn(Pre.payments, req[r].authority[1]) # {})
        => /\ req[r].gateway = "none"
           /\ req[r].pc \in {"v_cancel", "done"}
           /\ CountsUnchanged
           /\ cart = Pre.cart
           /\ \A i \in PendingIn(Pre.payments, req[r].authority[1]) :
                 /\ invoices[payments[i].invoice].number = None
                 /\ req[r].pc = "done" =>
                       /\ req[r].outcome = "canceled"
                       /\ payments[i].status = STATUS_ERROR

\* a cancellation callback has been handled for a pending payment
C8_Witness ==
    \E r \in Slots :
        /\ VerifyDone(r)
        /\ req[r].status = Some("NOK")
        /\ Usable(req[r].authority)
        /\ PendingIn(Pre.payments, req[r].authority[1]) # {}
        /\ cart[req[r].session[1]] # EmptyCart

\* C9: a verify request with no Authority, an empty one, or one that no
\* pending payment carries ends at once in the failure page and leaves every
\* Payment, Invoice, InvoiceItem, Product and the cart unchanged.
C9_NoUsableKeyMutatesNothing ==
    \A r \in Slots :
        (/\ Verifying(r)
         /\ \/ ~Usable(req[r].authority)
            \/ PendingIn(Pre.payments, req[r].authority[1]) = {})
        => /\ req[r].pc = "done"
           /\ req[r].outcome =
                 (IF Usable(req[r].authority) THEN "no_payment" ELSE "cancelled")
           /\ payments = Pre.payments
           /\ invoices = Pre.invoices
           /\ items = Pre.items
           /\ products = Pre.products
           /\ cart = Pre.cart

\* a callback for a payment that is already in error
C9_Witness ==
    \E r \in Slots :
        /\ VerifyDone(r)
        /\ Usable(req[r].authority)
        /\ \E i \in 1..Len(Pre.payments) :
              /\ Pre.payments[i].authority = req[r].authority[1]
              /\ Pre.payments[i].status = STATUS_ERROR

\* C10: a verify request whose gateway call fails in transport leaves the
\* payment pending and the tables and the cart unchanged; a later verify
\* request for that payment with Status=OK is not turned away, and when its
\* gateway call returns the success code it applies the full settlement.
C10_TransportFailureRetryable ==
    \A r \in Slots :
        /\ (VerifyDone(r) /\ req[r].gateway = "exception")
           => /\ req[r].outcome = "network_error"
              /\ payments = Pre.payments
              /\ payments[req[r].payment[1].id].status = STATUS_PENDING
              /\ invoices = Pre.invoices
              /\ products = Pre.products
              /\ cart = Pre.cart
        /\ (/\ VerifyDone(r)
            /\ req[r].status = Some("OK")
            /\ Usable(req[r].authority)
            /\ \E i \in netfail :
                  i \in PendingIn(Pre.payments, req[r].authority[1]))
           => /\ req[r].outcome # "no_payment"
              /\ req[r].gateway = "code100" =>
                    \A i \in PendingIn(Pre.payments, req[r].authority[1]) :
                        Settled(r, i)

\* a verify request has settled a payment whose earlier verify call had failed
C10_Witness ==
    \E r \in Slots :
        /\ VerifyDone(r)
        /\ req[r].outcome = "success"
        /\ req[r].payment[1].id \in netfail

\* C11: a verify request whose gateway call returns any body other than the
\* success code 100 (another code, or a body with no data object) ends in the
\* failure page with the payment in error, and leaves every Product.count and
\* the invoice's number as they were.
C11_VerifyRejectionMarksError ==
    \A r \in Slots :
        (VerifyDone(r) /\ req[r].gateway \in {"other", "no_data"})
        => /\ req[r].outcome = "not_verified"
           /\ payments[req[r].payment[1].id].status = STATUS_ERROR
           /\ CountsUnchanged
           /\ invoices = Pre.invoices

CheckoutDone(r) == req[r].view = "checkout" /\ req[r].pc = "done"

\* the checkout request in slot r has saved one Invoice and one Payment
Persisted(r) ==
    /\ Len(payments) = Len(Pre.payments) + 1
    /\ Len(invoices) = Len(Pre.invoices) + 1
    /\ payments[Len(payments)].invoice = Len(invoices)

\* the Payment row the checkout request has saved
Saved == payments[Len(payments)]

\* C12: a checkout POST whose authorize response has no success code and
\* carries errors {code: -9, message: "bad merchant"} saves the Payment with
\* status error, error_code "-9" and error_message "bad merchant", issues no
\* redirect, keeps the Invoice, and leaves the session cart as it was.
C12_AuthorizeRejection ==
    \A r \in Slots :
        (CheckoutDone(r) /\ req[r].gateway \in {"errors", "errors_data_list"})
        => /\ Persisted(r)
           /\ Saved.status = STATUS_ERROR
           /\ Saved.error_code = Some("-9")
           /\ Saved.error_message = Some("bad merchant")
           /\ req[r].outcome = "checkout_error"
           /\ req[r].location = None
           /\ cart = Pre.cart

\* C13: a checkout POST whose authorize call fails in transport saves the
\* Payment with status error and the local connection-failure message, issues
\* no redirect, and leaves the session cart as it was.
C13_AuthorizeTransportError ==
    \A r \in Slots :
        (CheckoutDone(r) /\ req[r].gateway = "exception")
        => /\ Persisted(r)
           /\ Saved.status = STATUS_ERROR
           /\ Saved.error_message = Some("error in connection to zarinpal")
           /\ Saved.error_code = None
           /\ req[r].outcome = "checkout_error"
           /\ req[r].location = None
           /\ cart = Pre.cart

\* a checkout of a non-empty cart has failed in transport
C13_Witness ==
    \E r \in Slots :
        /\ CheckoutDone(r)
        /\ req[r].gateway = "exception"
        /\ cart[req[r].session[1]] # EmptyCart

\* payments saved by a checkout whose authorize call raised
FailedAuthorize(table) ==
    {i \in 1..Len(table) :
        table[i].error_message = Some("error in connection to zarinpal")}

\* no verify request has matched a payment of a failed authorize call
NeverMatched ==
    \A r \in Slots :
        (Verifying(r) /\ req[r].payment # None)
        => req[r].payment[1].id \notin FailedAuthorize(Pre.payments)

\* C14 as stated: a timed-out authorize call leaves the Payment with status
\* pending and no authority, and no later verify callback matches it.
C14_TimedOutAuthorizeLeavesPending ==
    /\ \A r \in Slots :
          (CheckoutDone(r) /\ req[r].gateway = "exception")
          => /\ Persisted(r)
             /\ Saved.status = STATUS_PENDING
             /\ Saved.authority = ""
    /\ NeverMatched

\* C14 amended: a timed-out authorize call leaves the Payment with status
\* error and no authority, and no later verify callback matches it.
C14_TimedOutAuthorizeMarksError ==
    /\ \A r \in Slots :
          (CheckoutDone(r) /\ req[r].gateway = "exception")
          => /\ Persisted(r)
             /\ Saved.status = STATUS_ERROR
             /\ Saved.authority = ""
    /\ NeverMatched

\* a verify callback with the empty authority has been handled while the
\* payment of a timed-out authorize call is on file
C14_Witness ==
    \E r \in Slots :
        /\ VerifyDone(r)
        /\ req[r].authority = Some("")
        /\ FailedAuthorize(Pre.payments) # {}

\* C15: a checkout POST that reaches the gateway ends in a redirect exactly
\* when the authorize response carries the success code; then, and only then,
\* the Payment is saved pending with the token of the response as authority,
\* and the redirect goes to the payment URL built from that token.
C15_AuthorizeSuccess ==
    \A r \in Slots :
        (CheckoutDone(r) /\ req[r].gateway # "none")
        => /\ Persisted(r)
           /\ req[r].outcome = "redirect" <=> req[r].gateway = "code100"
           /\ req[r].gateway = "code100" <=>
                 (Saved.status = STATUS_PENDING /\ Saved.authority # "")
           /\ req[r].gateway = "code100" =>
                 /\ Saved.authority = AuthSeq[Len(issued)]
                 /\ req[r].location =
                       Some("https://sandbox.zarinpal.com/pg/StartPay/" \o AuthSeq[Len(issued)])
           /\ req[r].gateway # "code100" => req[r].location = None

\* a checkout has been redirected to the gateway
C15_Witness ==
    \E r \in Slots :
        /\ CheckoutDone(r)
        /\ req[r].outcome = "redirect"
        /\ cart[req[r].session[1]] # EmptyCart

\* C16: a checkout POST with a valid form and an empty session cart saves no
\* Invoice, no InvoiceItem and no Payment, sends nothing to the gateway, and
\* ends in a validation error.
C16_EmptyCartCheckoutRejected ==
    \A r \in Slots :
        (/\ req[r].view = "checkout"
         /\ req[r].pc # "idle"
         /\ req[r].outcome # "form_invalid"
         /\ Pre.cart[req[r].session[1]] = EmptyCart)
        => /\ invoices = Pre.invoices
           /\ items = Pre.items
           /\ payments = Pre.payments
           /\ req[r].gateway = "none"
           /\ req[r].pc = "done"
           /\ req[r].outcome = "validation_error"

\* the sum of the totals of the InvoiceItem rows of an invoice
ItemsTotal(table, invoice_id) ==
    LET rows == {it \in table : it.invoice = invoice_id}
    IN  SumOver(rows, [it \in rows |-> it.total])

\* C17: when a checkout POST leaves its item-creation phase, by going on or
\* by failing, either its Invoice is stored together with exactly one
\* InvoiceItem for every entry of the cart, or neither the Invoice nor any
\* InvoiceItem of it is stored.
C17_InvoiceAllOrNothing ==
    [][\A r \in Slots :
          (req[r].pc = "co_items" /\ req'[r].pc # "co_items")
          => LET id == req[r].invoice[1].id
                 rows == {it \in items' : it.invoice = id}
             IN  \/ /\ id \in 1..Len(invoices')
                    /\ \A k \in DOMAIN req[r].cart :
                          \E it \in rows : it.product = int(k)
                    /\ Cardinality(rows) = Cardinality(DOMAIN req[r].cart)
                 \/ /\ id \notin 1..Len(invoices')
                    /\ rows = {}]_vars

\* C18: when a checkout POST has created the items of its Invoice, the stored
\* Invoice.total equals the sum of the totals of those items, also when staff
\* change a product's price or discount while the request runs.
C18_InvoiceTotalMatchesItems ==
    [][\A r \in Slots :
          (req[r].pc = "co_items" /\ req'[r].pc = "co_authorize")
          => LET id == req[r].invoice[1].id
             IN  invoices'[id].total = ItemsTotal(items', id)]_vars

\* C19: no step, an edit of a product's name, price or discount in the admin
\* site included, changes a stored InvoiceItem, an Invoice.total or a
\* Payment.total, and the amount a verify request sends to the gateway is
\* the whole part of the stored Payment.total.
C19_SnapshotStability ==
    [][/\ \A it \in items : it \in items'
       /\ \A i \in 1..Len(invoices) : invoices'[i].total = invoices[i].total
       /\ \A i \in 1..Len(payments) : payments'[i].total = payments[i].total
       /\ \A r \in Slots :
             (req'[r].view = "verify" /\ req'[r].amount # None)
             => req'[r].amount =
                   Some(payments'[req'[r].payment[1].id].total \div 10000)]_vars

\* a verify request has sent its amount for an invoice whose product has
\* since been renamed and repriced
C19_Witness ==
    \E r \in Slots :
        /\ req[r].amount # None
        /\ req[r].amount[1] > 0
        /\ \E it \in items :
              /\ it.invoice = req[r].payment[1].invoice
              /\ products[it.product].price # it.price
              /\ products[it.product].discount # it.discount
              /\ products[it.product].name # it.name

\* the checkout page has been rendered for the request in slot r
PageDone(r) == req[r].view = "checkout_get" /\ req[r].pc = "done"

\* the entries of the cart whose product is on file
Priced(c) == {k \in DOMAIN c : int(k) \in DOMAIN products}

\* sum over the priced entries of price * count * pct, in ten-thousandths
Weighted(c, pct) ==
    SumOver(Priced(c),
            [k \in Priced(c) |-> products[int(k)].price * c[k] * pct[k] * 100])

\* C20: for every cart and product table prepare_cart_data returns
\* subtotal = sum of price*count, discount_total = subtotal less the sum of the
\* line totals price*count*(1 - discount/100), vat_amount = 9% of
\* (subtotal - discount_total) and total = (subtotal - discount_total) +
\* vat_amount; for cart {"5": 2} with product 5 at price 100 and discount 10
\* that is line total 180, subtotal 200, discount_total 20, vat 16.2 and
\* total 196.2.
C20_PricingFormula ==
    \A r \in Slots :
        PageDone(r)
        => LET c == req[r].cart
               data == req[r].context[1]
               gross == Weighted(c, [k \in Priced(c) |-> 100])
               net == Weighted(c, [k \in Priced(c) |-> 100 - products[int(k)].discount])
           IN  /\ DOMAIN data.cart_items = Priced(c)
               /\ \A k \in Priced(c) :
                     data.cart_items[k].total * 100 =
                         Weighted([j \in {k} |-> c[k]],
                                  [j \in {k} |-> 100 - products[int(k)].discount])
               /\ data.subtotal * 100 = gross
               /\ data.discount_total * 100 = gross - net
               /\ data.vat_amount * 100 = net * 9
               /\ data.total * 100 = net * 109
               /\ (/\ c = [k \in {"5"} |-> 2]
                   /\ products[5].price = 100
                   /\ products[5].discount = 10)
                  => /\ data.cart_items["5"].total = 18000
                     /\ data.subtotal = 20000
                     /\ data.discount_total = 2000
                     /\ data.vat_amount = 162000
                     /\ data.total = 1962000

\* the checkout page for cart {"5": 2} with product 5 at price 100, discount 10
C20_Witness ==
    \E r \in Slots :
        /\ PageDone(r)
        /\ req[r].cart = [k \in {"5"} |-> 2]
        /\ products[5].price = 100
        /\ products[5].discount = 10

\* the cart page has been rendered for the request in slot r
CartShown(r) == req[r].view = "cart_show" /\ req[r].pc = "done"

C22_DanglingEntriesDropped ==
    \A r \in Slots :
        /\ PageDone(r)
           => /\ req[r].outcome = "checkout_page"
              /\ req[r].context[1] = prepare_cart_data(Live(req[r].cart))
              /\ DOMAIN req[r].context[1].cart_items = DOMAIN Live(req[r].cart)
              /\ cart[req[r].session[1]] = req[r].cart
        /\ CartShown(r)
           => /\ req[r].outcome = "cart_page"
              /\ req[r].context[1].total * 100 =
                    Weighted(req[r].cart,
                             [k \in Priced(req[r].cart) |-> 100 - products[int(k)].discount])
              /\ cart[req[r].session[1]] = req[r].cart

\* the cart page of a cart with an entry for the missing product 7 beside a
\* priced entry
C22_Witness ==
    \E r \in Slots :
        /\ CartShown(r)
        /\ "7" \in DOMAIN req[r].cart
        /\ req[r].context[1].total > 0

\* C23: for positive quantities, prices >= 0 and discounts in 0..100 the
\* subtotal, discount_total, vat_amount and total of prepare_cart_data, the
\* result of get_cart_total_price and the Payment.total of a checkout are all
\* >= 0, and total = sum of the line totals + vat_amount.
C23_MoneyNonNegative ==
    \A r \in Slots :
        /\ PageDone(r)
           => LET data == req[r].context[1]
                  rows == DOMAIN data.cart_items
              IN  /\ data.subtotal >= 0
                  /\ data.discount_total >= 0
                  /\ data.vat_amount >= 0
                  /\ data.total >= 0
                  /\ data.total =
                        100 * SumOver(rows, [k \in rows |-> data.cart_items[k].total])
                            + data.vat_amount
        /\ CartShown(r) => req[r].context[1].total >= 0
        /\ (CheckoutDone(r) /\ req[r].gateway # "none") => Saved.total >= 0

\* the checkout page of a cart with a product at discount 100 and one at price 0
C23_Witness ==
    \E r \in Slots :
        /\ PageDone(r)
        /\ DOMAIN req[r].cart = {"2", "5"}
        /\ products[2].discount = 100
        /\ products[2].price > 0
        /\ products[5].price = 0

\* C28: after any sequence of add, remove and empty requests the session cart
\* maps decimal strings of product ids to positive integers.
C28_CartWellFormed ==
    \A s \in Sessions :
        \A k \in DOMAIN cart[s] :
            /\ isdigit(k)
            /\ int(k) \in ProductIds
            /\ k = str(int(k))
            /\ cart[s][k] \in Nat \ {0}

\* product 1 has been added, checked out and taken out of the cart again,
\* and product 2 has been added twice
C28_Witness ==
    /\ \E it \in items : it.product = 1
    /\ \A s \in Sessions : str(1) \notin DOMAIN cart[s]
    /\ \E s \in Sessions : str(2) \in DOMAIN cart[s] /\ cart[s][str(2)] = 2

\* C30: the amount a verify request sends is the amount the authorize request
\* of the same Payment sent, whatever has happened to the cart and the
\* products in between.
C30_VerifyAmountIsAuthorizedAmount ==
    \A r \in Slots :
        (req[r].view = "verify" /\ req[r].amount # None)
        => LET n == int_auth(req[r].authority[1])
           IN  /\ n \in 1..Len(issued)
               /\ req[r].amount = Some(issued[n])

\* a verify request has sent its amount after the cart was emptied and the
\* product of the invoice repriced
C30_Witness ==
    \E r \in Slots :
        /\ req[r].view = "verify"
        /\ req[r].amount # None
        /\ req[r].amount[1] > 0
        /\ cart[req[r].session[1]] = EmptyCart
        /\ \E it \in items :
              /\ it.invoice = req[r].payment[1].invoice
              /\ products[it.product].price # it.price

\* C24: settlement takes the item's count off the product's count as it read
\* it, with no test against zero, so two Payments whose invoices both hold the
\* product with one unit left can both become done while their settlements
\* overlap, and the count ends below zero.
C24_UnguardedDecrement ==
    [][\A r \in Slots :
          (req[r].pc = "v_product_save" /\ req'[r].pc # "v_product_save")
          => LET cur == req[r].product[1]
             IN  products'[cur.id].count = cur.count - cur.item.count]_vars

\* two verify requests in flight for two Payments of different invoices, both
\* Payments done, both invoices holding the product that had one unit left,
\* and its count below zero
C24_Witness ==
    \E r1, r2 \in Slots :
        /\ r1 # r2
        /\ Verifying(r1) /\ Verifying(r2)
        /\ LET p1 == req[r1].payment[1]
               p2 == req[r2].payment[1]
           IN  /\ p1.id # p2.id
               /\ p1.invoice # p2.invoice
               /\ payments[p1.id].status = STATUS_DONE
               /\ payments[p2.id].status = STATUS_DONE
               /\ \E id \in DOMAIN products :
                      /\ InitialCount[id] = 1
                      /\ Ordered(p1.invoice, id) > 0
                      /\ Ordered(p2.invoice, id) > 0
                      /\ products[id].count < 0

\* C25: an invoice whose settlement was complete when the settlement of
\* another invoice began has the lower number of the two.
C25_NumbersFollowSettlementOrder ==
    \A r \in Slots :
        (/\ req[r].view = "verify"
         /\ req[r].invoice # None
         /\ req[r].invoice[1].number # None
         /\ req[r].invoice[1].id \notin req[r].before)
        => \A j \in req[r].before :
              invoices[j].number[1] < req[r].invoice[1].number[1]

\* C26: no two pending Payments have the same authority, so the lookup of a
\* verify request matches at most one Payment.
C26_PendingAuthorityUnique ==
    /\ \A i, j \in 1..Len(payments) :
          (/\ i # j
           /\ payments[i].status = STATUS_PENDING
           /\ payments[j].status = STATUS_PENDING)
          => payments[i].authority # payments[j].authority
    /\ \A n \in 1..Len(AuthSeq) : Cardinality(PendingWithAuthority(AuthSeq[n])) <= 1

\* two Payments are pending, each under its own token
C26_Witness ==
    \E i, j \in 1..Len(payments) :
        /\ i # j
        /\ payments[i].status = STATUS_PENDING
        /\ payments[j].status = STATUS_PENDING
        /\ PendingWithAuthority(payments[i].authority) = {i}
        /\ PendingWithAuthority(payments[j].authority) = {j}

\* C27: every InvoiceItem belongs to an Invoice on file, every Payment belongs
\* to an Invoice on file, and no two Payments belong to the same Invoice.
C27_ReferentialIntegrity ==
    /\ \A it \in items : it.invoice \in 1..Len(invoices)
    /\ \A i \in 1..Len(payments) : payments[i].invoice \in 1..Len(invoices)
    /\ \A i, j \in 1..Len(payments) :
          i # j => payments[i].invoice # payments[j].invoice

\* two invoices are on file, each with an item and a Payment
C27_Witness ==
    /\ Len(invoices) = 2
    /\ Len(payments) = 2
    /\ \A i \in 1..Len(invoices) :
          /\ ItemsOf(i) # {}
          /\ \E k \in 1..Len(payments) : payments[k].invoice = i

\* C29: in every state, also while verify requests for one authority
\* interleave, a Payment has a ref exactly when its status is done.
C29_RefIffDone ==
    \A i \in 1..Len(payments) :
        payments[i].ref # None <=> payments[i].status = STATUS_DONE

\* a Payment that one verify request settled has been put in error, without
\* a ref, by another verify request for the same authority, beside a Payment
\* that is done with its ref
C29_Witness ==
    \E i \in 1..Len(payments) :
        /\ payments[i].status = STATUS_ERROR
        /\ payments[i].ref = None
        /\ invoices[payments[i].invoice].number # None
        /\ \E k \in 1..Len(payments) :
              /\ payments[k].status = STATUS_DONE
              /\ payments[k].ref # None

\* the Payments that are done
DonePayments == {i \in 1..Len(payments) : payments[i].status = STATUS_DONE}

\* units of product id on the invoices of the done Payments
UnitsSold(id) ==
    SumOver(DonePayments, [i \in DonePayments |-> Ordered(payments[i].invoice, id)])

\* C31: no stock decrement is lost: once every verify request has completed,
\* whatever the interleaving, a product's count is its initial count less the
\* units of it on the invoices of the done Payments, and no higher.
C31_NoLostDecrement ==
    AllIdle => \A id \in DOMAIN products :
                  products[id].count <= InitialCount[id] - UnitsSold(id)

\* C32: whenever no verify request is in progress, also after one that failed
\* partway through the success path, every done Payment has an Invoice with
\* a number and the stock of each of its items has been taken off.
C32_DoneMeansSettled ==
    AllIdle =>
        /\ \A i \in DonePayments : invoices[payments[i].invoice].number # None
        /\ \A id \in DOMAIN products :
              products[id].count = InitialCount[id] - UnitsSold(id)

\* C33: with requests run one at a time, no sequence of cart, checkout and
\* verify requests takes a Product.count below zero.
C33_StockNonNegative ==
    \A id \in DOMAIN products : products[id].count >= 0

\* the invoice numbers on file
NumbersOnFile == {invoices[j].number[1] : j \in SettledInvoices}

\* C34: with settlements run one at a time, after k Invoices have been
\* settled the numbers on file are exactly 1..k, one per settled Invoice, and
\* an Invoice whose Payment is not done has no number.
C34_GaplessNumbers ==
    AllIdle =>
        /\ NumbersOnFile = 1..Cardinality(DonePayments)
        /\ Cardinality(SettledInvoices) = Cardinality(DonePayments)
        /\ \A j \in SettledInvoices :
              \E i \in DonePayments : payments[i].invoice = j

\* invoices 1 and 3 are settled with numbers 1 and 2, and the attempt between
\* them, whose Payment is in error, has no number
C34_Witness ==
    /\ AllIdle
    /\ Len(invoices) = 3
    /\ Len(payments) = 3
    /\ invoices[1].number = Some(1)
    /\ invoices[2].number = None
    /\ invoices[3].number = Some(2)
    /\ \E i \in 1..Len(payments) :
          payments[i].invoice = 2 /\ payments[i].status = STATUS_ERROR

\* C35: a checkout POST with a valid form adds one Invoice without a number,
\* then that Invoice's items, then at most one Payment for it, and no step of
\* it changes an Invoice, InvoiceItem or Payment that was on file before; a
\* retry after a failed authorize leaves the earlier Payment in error.
C35_CheckoutCreatesFreshRecords ==
    [][\A r \in Slots :
          /\ (Idle(r) /\ req'[r].pc = "co_items")
             => /\ Len(invoices') = Len(invoices) + 1
                /\ invoices'[Len(invoices')].number = None
                /\ req'[r].invoice[1].id = Len(invoices')
                /\ \A j \in 1..Len(invoices) : invoices'[j] = invoices[j]
                /\ items' = items
                /\ payments' = payments
          /\ (req[r].pc = "co_items" /\ req'[r].pc # "co_items")
             => /\ invoices' = invoices
                /\ payments' = payments
                /\ items \subseteq items'
                /\ \A it \in items' \ items : it.invoice = req[r].invoice[1].id
                /\ ItemsOf(req[r].invoice[1].id) = {}
          /\ (req[r].pc = "co_authorize" /\ req'[r].pc # "co_authorize")
             => /\ invoices' = invoices
                /\ items' = items
                /\ Len(payments') = Len(payments) + 1
                /\ payments'[Len(payments')].invoice = req[r].invoice[1].id
                /\ \A i \in 1..Len(payments) :
                      /\ payments'[i] = payments[i]
                      /\ payments[i].invoice # req[r].invoice[1].id]_vars

\* a checkout has been retried after a rejected authorize: the first Payment
\* is still in error with the gateway's code, beside the retry's own Payment
\* and Invoice
C35_Witness ==
    /\ Len(payments) >= 2
    /\ Len(invoices) >= 2
    /\ payments[1].status = STATUS_ERROR
    /\ payments[1].error_code = Some(str(GatewayErrors.code))
    /\ payments[2].status = STATUS_PENDING
    /\ payments[2].invoice # payments[1].invoice
    /\ ItemsOf(payments[1].invoice) # {}
    /\ ItemsOf(payments[2].invoice) # {}

\* the entries of cart d that are new or larger than in cart c
Grown(c, d) == {k \in DOMAIN d : cart_get(c, k, 0) < d[k]}

Purchasable(id) == products[id].count > 0 /\ products[id].enabled

\* C36: add_to_cart raises the quantity of a product with count > 0 and
\* enabled by exactly 1, from 0 if it has no entry, and changes no other
\* entry; for a product with count <= 0 or disabled it leaves the cart as it
\* is.  So every step in which an entry grows is such an add.
C36_AddOnlyPurchasable ==
    [][\A s \in Sessions :
          LET c == cart[s]
              d == cart'[s]
          IN  /\ Grown(c, d) # {}
                 => \E id \in DOMAIN products :
                       /\ Purchasable(id)
                       /\ Grown(c, d) = {str(id)}
                       /\ d[str(id)] = cart_get(c, str(id), 0) + 1
                       /\ DOMAIN d = DOMAIN c \cup {str(id)}
                       /\ \A k \in DOMAIN c \ {str(id)} : d[k] = c[k]
              /\ \A id \in DOMAIN products :
                    LET a == add_to_cart(c, id)
                    IN  IF Purchasable(id)
                        THEN /\ a[str(id)] = cart_get(c, str(id), 0) + 1
                             /\ DOMAIN a = DOMAIN c \cup {str(id)}
                             /\ \A k \in DOMAIN c \ {str(id)} : a[k] = c[k]
                        ELSE a = c]_vars

\* product 1 has been added to the unit already in the cart, and the entry of
\* product 2, which is enabled but out of stock, is as it was
C36_Witness ==
    \E s \in Sessions :
        /\ DOMAIN cart[s] = {str(1), str(2)}
        /\ cart[s][str(1)] = 2
        /\ cart[s][str(2)] = 1
        /\ Purchasable(1)
        /\ products[2].enabled
        /\ products[2].count <= 0

\* C37: remove_from_cart deletes the whole entry of an id that is in the cart,
\* whatever its quantity, and changes no other entry; for an id that is not in
\* the cart it changes nothing, so a second removal changes nothing.
C37_RemoveDeletesEntry ==
    [][\A s \in Sessions :
          LET c == cart[s]
              d == cart'[s]
          IN  /\ (d # c /\ d # EmptyCart /\ Grown(c, d) = {})
                 => \E k \in DOMAIN c :
                       /\ DOMAIN d = DOMAIN c \ {k}
                       /\ \A j \in DOMAIN d : d[j] = c[j]
              /\ \A id \in ProductIds :
                    LET once == remove_from_cart(c, id)
                    IN  /\ DOMAIN once = DOMAIN c \ {str(id)}
                        /\ \A j \in DOMAIN once : once[j] = c[j]
                        /\ str(id) \notin DOMAIN c => once = c
                        /\ remove_from_cart(once, id) = once]_vars

\* the entry of product 1 has been removed and the entry of product 2, which
\* can no longer be added, is as it was
C37_Witness ==
    \E s \in Sessions :
        /\ DOMAIN cart[s] = {str(2)}
        /\ cart[s][str(2)] = 1
        /\ ~Purchasable(2)

=============================================================================
